---- MODULE Spec2Model ----
(***************************************************************************)
(* Bodyfile3Line (src/common/bodyfile/bodyfile3.rs): the TSK 3.x bodyfile  *)
(* record, its builder, its Display implementation and its TryFrom<&str>   *)
(* parser.                                                                 *)
(*                                                                         *)
(* Text is a sequence of one-character strings.  A u64 or i64 value is the *)
(* numeral [neg, mag]: its sign and the decimal digits of its magnitude    *)
(* without leading zeros (zero is [neg |-> FALSE, mag |-> <<"0">>]), so    *)
(* that the full 64-bit range is representable.                            *)
(***************************************************************************)
EXTENDS Integers, Sequences, FiniteSets, TLC

VARIABLES pc, line, result, r, text, applied

vars == <<pc, line, result, r, text, applied>>

(***************************************************************************)
(* Bounds of the model.                                                    *)
(***************************************************************************)
\* the largest number of '|' an input line's name carries
MaxNamePipes == 2
\* the longest run of bare '|' tried as a malformed line
MaxBarePipes == 12

(***************************************************************************)
(* Text helpers.                                                           *)
(***************************************************************************)
Bar == "|"

Digits == {"0", "1", "2", "3", "4", "5", "6", "7", "8", "9"}

DigitOrder == <<"0", "1", "2", "3", "4", "5", "6", "7", "8", "9">>

DigitVal(c) == CHOOSE i \in 1..Len(DigitOrder) : DigitOrder[i] = c

\* number of occurrences of '|' in a text
RECURSIVE CountBars(_)
CountBars(s) ==
    IF s = <<>> THEN 0
    ELSE (IF Head(s) = Bar THEN 1 ELSE 0) + CountBars(Tail(s))

\* str::split('|'): the segments between the separators, empty ones kept;
\* the empty text yields one empty segment
RECURSIVE split(_)
split(s) ==
    IF \E i \in 1..Len(s) : s[i] = Bar
    THEN LET i == CHOOSE j \in 1..Len(s) :
                      s[j] = Bar /\ \A k \in 1..(j - 1) : s[k] # Bar
         IN <<SubSeq(s, 1, i - 1)>> \o split(SubSeq(s, i + 1, Len(s)))
    ELSE <<s>>

\* [&str]::join("|")
RECURSIVE join(_)
join(parts) ==
    IF parts = <<>> THEN <<>>
    ELSE IF Len(parts) = 1 THEN parts[1]
    ELSE parts[1] \o <<Bar>> \o join(Tail(parts))

(***************************************************************************)
(* Integers: the numerals of u64 and i64, str::parse and Display.          *)
(***************************************************************************)
Numeral(neg, mag) == [neg |-> neg, mag |-> mag]

U64Max == <<"1","8","4","4","6","7","4","4","0","7","3","7","0","9","5","5","1","6","1","5">>

I64Max == <<"9","2","2","3","3","7","2","0","3","6","8","5","4","7","7","5","8","0","7">>

I64MinMag == <<"9","2","2","3","3","7","2","0","3","6","8","5","4","7","7","5","8","0","8">>

IsDigits(s) == Len(s) > 0 /\ \A i \in 1..Len(s) : s[i] \in Digits

RECURSIVE StripZeros(_)
StripZeros(s) ==
    IF Len(s) > 1 /\ Head(s) = "0" THEN StripZeros(Tail(s)) ELSE s

\* a <= b for digit sequences of the same length
RECURSIVE LexLeq(_, _)
LexLeq(a, b) ==
    IF a = <<>> THEN TRUE
    ELSE IF DigitVal(Head(a)) < DigitVal(Head(b)) THEN TRUE
    ELSE IF DigitVal(Head(a)) > DigitVal(Head(b)) THEN FALSE
    ELSE LexLeq(Tail(a), Tail(b))

\* a <= b for magnitudes without leading zeros
MagLeq(a, b) == Len(a) < Len(b) \/ (Len(a) = Len(b) /\ LexLeq(a, b))

ParseFail == [ok |-> FALSE]

ParseOk(v) == [ok |-> TRUE, val |-> v]

\* str::parse::<i64>: an optional '+' or '-', then one or more ASCII digits,
\* the value within i64::MIN ..= i64::MAX
parse_i64(s) ==
    LET signed == Len(s) > 1 /\ Head(s) \in {"+", "-"}
        minus == signed /\ Head(s) = "-"
        body == IF signed THEN Tail(s) ELSE s
    IN IF ~IsDigits(body) THEN ParseFail
       ELSE LET m == StripZeros(body)
            IN IF minus
               THEN IF MagLeq(m, I64MinMag)
                    THEN ParseOk(Numeral(m # <<"0">>, m))
                    ELSE ParseFail
               ELSE IF MagLeq(m, I64Max) THEN ParseOk(Numeral(FALSE, m))
                    ELSE ParseFail

\* faulty variant: the unsigned columns parsed as i64
parse_u64_signed(s) == parse_i64(s)

\* str::parse::<u64>: an optional '+', then one or more ASCII digits, the
\* value at most u64::MAX; a '-' is no digit
parse_u64(s) ==
    LET body == IF Len(s) > 1 /\ Head(s) = "+" THEN Tail(s) ELSE s
    IN IF ~IsDigits(body) THEN ParseFail
       ELSE LET m == StripZeros(body)
            IN IF MagLeq(m, U64Max) THEN ParseOk(Numeral(FALSE, m))
               ELSE ParseFail

\* faulty variant: the sign is not printed
show_int_abs(v) == v.mag

\* Display of u64 and i64: decimal, '-' before a negative value
show_int(v) == IF v.neg THEN <<"-">> \o v.mag ELSE v.mag

\* faulty variant: the floor of the timestamps is not checked
no_floor(v) == FALSE

\* v < -1
lt_minus_one(v) == v.neg /\ v.mag # <<"1">>

(***************************************************************************)
(* Bodyfile3Line.                                                          *)
(***************************************************************************)
Fields == {"md5", "name", "inode", "mode_as_string", "uid", "gid", "size",
           "atime", "mtime", "ctime", "crtime"}

Zero == Numeral(FALSE, <<"0">>)

MinusOne == Numeral(TRUE, <<"1">>)

new ==
    [md5 |-> <<"0">>, name |-> <<>>, inode |-> <<"0">>, mode_as_string |-> <<>>,
     uid |-> Zero, gid |-> Zero, size |-> Zero,
     atime |-> MinusOne, mtime |-> MinusOne, ctime |-> MinusOne,
     crtime |-> MinusOne]

with_md5(self, a) == [self EXCEPT !.md5 = a]

with_name(self, a) == [self EXCEPT !.name = a]

with_inode(self, a) == [self EXCEPT !.inode = a]

\* faulty variant: with_mode generated for the attribute name
with_mode_as_name(self, a) == [self EXCEPT !.name = a]

with_mode(self, a) == [self EXCEPT !.mode_as_string = a]

with_uid(self, a) == [self EXCEPT !.uid = a]

with_gid(self, a) == [self EXCEPT !.gid = a]

with_size(self, a) == [self EXCEPT !.size = a]

with_atime(self, a) == [self EXCEPT !.atime = a]

with_mtime(self, a) == [self EXCEPT !.mtime = a]

with_ctime(self, a) == [self EXCEPT !.ctime = a]

with_crtime(self, a) == [self EXCEPT !.crtime = a]

\* faulty variant: atime and mtime printed in each other's place
fmt_swapped(self) ==
    self.md5 \o <<Bar>> \o self.name \o <<Bar>> \o self.inode \o <<Bar>>
    \o self.mode_as_string \o <<Bar>> \o show_int(self.uid) \o <<Bar>>
    \o show_int(self.gid) \o <<Bar>> \o show_int(self.size) \o <<Bar>>
    \o show_int(self.mtime) \o <<Bar>> \o show_int(self.atime) \o <<Bar>>
    \o show_int(self.ctime) \o <<Bar>> \o show_int(self.crtime)

\* faulty variant: the separator after the name is missing
fmt_unseparated(self) ==
    self.md5 \o <<Bar>> \o self.name \o self.inode \o <<Bar>>
    \o self.mode_as_string \o <<Bar>> \o show_int(self.uid) \o <<Bar>>
    \o show_int(self.gid) \o <<Bar>> \o show_int(self.size) \o <<Bar>>
    \o show_int(self.atime) \o <<Bar>> \o show_int(self.mtime) \o <<Bar>>
    \o show_int(self.ctime) \o <<Bar>> \o show_int(self.crtime)

\* impl fmt::Display: "{}|{}|{}|{}|{}|{}|{}|{}|{}|{}|{}"
fmt(self) ==
    self.md5 \o <<Bar>> \o self.name \o <<Bar>> \o self.inode \o <<Bar>>
    \o self.mode_as_string \o <<Bar>> \o show_int(self.uid) \o <<Bar>>
    \o show_int(self.gid) \o <<Bar>> \o show_int(self.size) \o <<Bar>>
    \o show_int(self.atime) \o <<Bar>> \o show_int(self.mtime) \o <<Bar>>
    \o show_int(self.ctime) \o <<Bar>> \o show_int(self.crtime)

(***************************************************************************)
(* Bodyfile3ParserError and TryFrom<&str>.                                 *)
(***************************************************************************)
Bodyfile3ParserError ==
    {"WrongNumberOfColumns", "IllegalUid", "IllegalGid", "IllegalSize",
     "IllegalATime", "IllegalMTime", "IllegalCTime", "IllegalCRTime"}

Err(e) == [tag |-> "Err", err |-> e]

Ok(rec) == [tag |-> "Ok", rec |-> rec]

\* an index or a slice out of range panics
Panic == [tag |-> "Panic"]

\* faulty variant: one column too few is let through
too_few_columns_off_by_one(parts) == Len(parts) < 10

\* parts.len() < 11
too_few_columns(parts) == Len(parts) < 11

\* parts[i], 0-indexed as in the source
at(parts, i) == parts[i + 1]

\* faulty variant: the slice of the name ends one chunk early
name_of_short(parts, name_chunks) == join(SubSeq(parts, 2, name_chunks))

\* parts[1..name_chunks + 1].join("|")
name_of(parts, name_chunks) == join(SubSeq(parts, 2, name_chunks + 1))

\* faulty variant: the columns after the name are read one place late
column_off_by_one(k, name_chunks) == k + name_chunks

\* the index of a fixed-width column: column + name_chunks - 1
column(k, name_chunks) == k + name_chunks - 1

try_from(l) ==
    LET parts == split(l)
        name_chunks == Len(parts) - 10
        reads == {0} \cup {column(k, name_chunks) : k \in 2..10}
    IN
    IF too_few_columns(parts) THEN Err("WrongNumberOfColumns")
    ELSE IF \/ name_chunks < 0
            \/ \E i \in reads : i < 0 \/ i >= Len(parts)
            \/ name_chunks + 1 > Len(parts)
            \/ 1 > name_chunks + 1
    THEN Panic
    ELSE
    LET md5 == at(parts, 0)
        name == name_of(parts, name_chunks)
        inode == at(parts, column(2, name_chunks))
        mode == at(parts, column(3, name_chunks))
        uid == parse_u64(at(parts, column(4, name_chunks)))
        gid == parse_u64(at(parts, column(5, name_chunks)))
        size == parse_u64(at(parts, column(6, name_chunks)))
        atime == parse_i64(at(parts, column(7, name_chunks)))
        mtime == parse_i64(at(parts, column(8, name_chunks)))
        ctime == parse_i64(at(parts, column(9, name_chunks)))
        crtime == parse_i64(at(parts, column(10, name_chunks)))
    IN
    IF ~uid.ok THEN Err("IllegalUid")
    ELSE IF ~gid.ok THEN Err("IllegalGid")
    ELSE IF ~size.ok THEN Err("IllegalSize")
    ELSE IF ~atime.ok THEN Err("IllegalATime")
    ELSE IF lt_minus_one(atime.val) THEN Err("IllegalATime")
    ELSE IF ~mtime.ok THEN Err("IllegalMTime")
    ELSE IF lt_minus_one(mtime.val) THEN Err("IllegalMTime")
    ELSE IF ~ctime.ok THEN Err("IllegalCTime")
    ELSE IF lt_minus_one(ctime.val) THEN Err("IllegalCTime")
    ELSE IF ~crtime.ok THEN Err("IllegalCRTime")
    ELSE IF lt_minus_one(crtime.val) THEN Err("IllegalCRTime")
    ELSE Ok([md5 |-> md5, name |-> name, inode |-> inode,
             mode_as_string |-> mode,
             uid |-> uid.val, gid |-> gid.val, size |-> size.val,
             atime |-> atime.val, mtime |-> mtime.val, ctime |-> ctime.val,
             crtime |-> crtime.val])

NoResult == [tag |-> "None"]

(***************************************************************************)
(* Inputs: the lines handed to try_from.  A line is the join of its        *)
(* segments, so every text is the line of exactly one segment sequence.    *)
(***************************************************************************)
\* numeric segments: canonical, signed, padded, malformed, at the 64-bit edges
NumSegs ==
    {<<"0">>, <<"1">>, <<"5">>, <<"-","1">>, <<"-","2">>, <<"-","5">>,
     <<"+","5">>, <<"0","0","7">>, <<"-","0">>, <<"X">>, <<>>, <<"+">>,
     <<"-">>, <<"1"," ">>, U64Max, Append(SubSeq(U64Max, 1, 19), "6"),
     I64Max, I64MinMag, <<"-">> \o I64MinMag,
     <<"-">> \o Append(SubSeq(I64MinMag, 1, 18), "9")}

\* the numeric segments of the doctest line "0|ls -l |wc|1|2|3|4|5|6|7|8|9"
BaseNums == <<<<"3">>, <<"4">>, <<"5">>, <<"6">>, <<"7">>, <<"8">>, <<"9">>>>

\* one valid segment, one malformed, one negative
CoarseSegs == {<<"1">>, <<"X">>, <<"-","5">>}

TextSegs == {<<>>, <<"0">>, <<" ","a"," ">>}

NameChunks == {<<>>, <<"n">>, <<" ","w">>}

\* every sequence over S of a length in lo..hi
SeqsOf(S, lo, hi) == UNION {[1..n -> S] : n \in lo..hi}

\* well-formed width, the base numerics with at most two segments replaced
NumLines ==
    {join(<<<<"0">>, <<>>, <<"0">>, <<>>>>
          \o [BaseNums EXCEPT ![i] = a, ![j] = b]) :
        <<i, j, a, b>> \in (1..7) \X (1..7) \X NumSegs \X NumSegs}

\* well-formed width, every numeric segment valid, malformed or negative
CoarseLines ==
    {join(<<<<"0">>, <<>>, <<"0">>, <<>>>> \o ns) : ns \in [1..7 -> CoarseSegs]}

\* the text columns varied, the name of one to MaxNamePipes + 1 chunks
TextLines ==
    {join(<<m>> \o nm \o <<i, mo>> \o BaseNums) :
        <<m, nm, i, mo>> \in
            TextSegs \X SeqsOf(NameChunks, 1, MaxNamePipes + 1)
                     \X TextSegs \X TextSegs}

\* runs of bare '|' and the doctest line cut short
ShortLines ==
    {[i \in 1..n |-> Bar] : n \in 0..MaxBarePipes}
    \cup {join(SubSeq(<<<<"0">>, <<>>, <<"0">>, <<>>>> \o BaseNums, 1, n)) :
             n \in 1..10}

\* lines of the doctests
\* doctest of try_from: "0|ls -l |wc|1|2|3|4|5|6|7|8|9"
DocNameLine ==
    <<"0","|","l","s"," ","-","l"," ","|","w","c","|","1","|","2","|","3","|","4","|","5","|","6","|","7","|","8","|","9">>

\* doctest of WrongNumberOfColumns: "0||0||0|0|0|-1|-1|-1|-1"
DocEmptyName ==
    <<"0","|","|","0","|","|","0","|","0","|","0","|","-","1","|","-","1","|","-","1","|","-","1">>

\* doctest of IllegalUid: "0||0||X|0|0|-1|-1|-1|-1"
DocBadUid ==
    <<"0","|","|","0","|","|","X","|","0","|","0","|","-","1","|","-","1","|","-","1","|","-","1">>

\* doctest of IllegalUid: "0||0||-1|0|0|-1|-1|-1|-1"
DocNegUid ==
    <<"0","|","|","0","|","|","-","1","|","0","|","0","|","-","1","|","-","1","|","-","1","|","-","1">>

\* doctest of IllegalATime: "0||0||0|0|0|-5|-1|-1|-1"
DocLowATime ==
    <<"0","|","|","0","|","|","0","|","0","|","0","|","-","5","|","-","1","|","-","1","|","-","1">>

\* doctest of IllegalCRTime: "0||0||0|0|0|-1|-1|-1|-5"
DocLowCRTime ==
    <<"0","|","|","0","|","|","0","|","0","|","0","|","-","1","|","-","1","|","-","1","|","-","5">>

\* doctest of IllegalATime: "0||0||1|0|0|5|-1|-1|-1"
DocATime ==
    <<"0","|","|","0","|","|","1","|","0","|","0","|","5","|","-","1","|","-","1","|","-","1">>

DocLines ==
    {DocNameLine, DocEmptyName, DocBadUid, DocNegUid, DocLowATime, DocLowCRTime, DocATime}

Lines ==
    NumLines \cup CoarseLines \cup TextLines \cup ShortLines \cup DocLines

(***************************************************************************)
(* Parsing a line, and formatting what was parsed.                         *)
(***************************************************************************)
InitParse ==
    /\ pc = "start"
    /\ line \in Lines
    /\ result = NoResult
    /\ r = new
    /\ text = <<>>
    /\ applied = {}

\* Bodyfile3Line::try_from(line)
ParseLine ==
    /\ pc = "start"
    /\ result' = try_from(line)
    /\ pc' = "parsed"
    /\ UNCHANGED <<line, r, text, applied>>

\* the parsed record's to_string()
ShowParsed ==
    /\ pc = "parsed"
    /\ result.tag = "Ok"
    /\ text' = fmt(result.rec)
    /\ pc' = "shown"
    /\ UNCHANGED <<line, result, r, applied>>

NextParse == ParseLine \/ ShowParsed

SpecParse == InitParse /\ [][NextParse]_vars

(***************************************************************************)
(* What the properties say of a line, stated on its text.                  *)
(***************************************************************************)
Parsed == pc \in {"parsed", "shown"}

IsErr(res, e) == res.tag = "Err" /\ res.err = e

TextFields == {"md5", "name", "inode", "mode_as_string"}

TimeFields == {"atime", "mtime", "ctime", "crtime"}

LastSeven(parts) == SubSeq(parts, Len(parts) - 6, Len(parts))

Unsigned(s) == IF s # <<>> /\ Head(s) \in {"+", "-"} THEN Tail(s) ELSE s

\* s is decimal text of a u64: digits after an optional '+', at most u64::MAX
DenotesUnsigned(s) ==
    /\ s = <<>> \/ Head(s) # "-"
    /\ IsDigits(Unsigned(s))
    /\ MagLeq(StripZeros(Unsigned(s)), U64Max)

\* s is decimal text of an i64 that is at least -1
DenotesTime(s) ==
    /\ IsDigits(Unsigned(s))
    /\ IF Head(s) = "-"
       THEN StripZeros(Unsigned(s)) \in {<<"0">>, <<"1">>}
       ELSE MagLeq(StripZeros(Unsigned(s)), I64Max)

\* s is decimal text of an i64 below -1
BelowFloor(s) ==
    /\ IsDigits(Unsigned(s))
    /\ Head(s) = "-"
    /\ StripZeros(Unsigned(s)) \notin {<<"0">>, <<"1">>}
    /\ MagLeq(StripZeros(Unsigned(s)), I64MinMag)

\* the integer a valid segment denotes
ValueOf(s) ==
    LET m == StripZeros(Unsigned(s))
    IN Numeral(Head(s) = "-" /\ m # <<"0">>, m)

\* s is what Display prints for its value: no '+', no padding, no "-0"
Canonical(s) ==
    /\ IsDigits(Unsigned(s))
    /\ Head(s) # "+"
    /\ StripZeros(Unsigned(s)) = Unsigned(s)
    /\ s # <<"-", "0">>

\* the numeric columns in validation order, and the error of each
FieldValid(i, s) == IF i <= 3 THEN DenotesUnsigned(s) ELSE DenotesTime(s)

FieldError ==
    <<"IllegalUid", "IllegalGid", "IllegalSize", "IllegalATime",
      "IllegalMTime", "IllegalCTime", "IllegalCRTime">>

GeMinusOne(v) == ~v.neg \/ v.mag = <<"1">>

NineBars == [i \in 1..9 |-> Bar]

(***************************************************************************)
(* Properties of try_from.                                                 *)
(***************************************************************************)
\* C3: try_from returns WrongNumberOfColumns exactly when the line has fewer
\* than 10 '|' (fewer than 11 segments), whatever the segments hold.
C3_ColumnCount ==
    Parsed => (IsErr(result, "WrongNumberOfColumns") <=> CountBars(line) < 10)

C3_Witness ==
    Parsed /\ line = NineBars /\ IsErr(result, "WrongNumberOfColumns")

\* C4: on a line of at least 11 segments with one or more invalid numeric
\* columns (uid, gid, size not the decimal text of a u64; a timestamp not the
\* decimal text of an i64, or below -1), try_from returns the Illegal* error
\* of the first invalid column in the order uid, gid, size, atime, mtime,
\* ctime, crtime, whatever the later columns hold.
C4_FirstDefect ==
    (Parsed /\ CountBars(line) >= 10) =>
        LET nums == LastSeven(split(line))
            bad == {i \in 1..7 : ~FieldValid(i, nums[i])}
        IN bad # {} =>
              IsErr(result, FieldError[CHOOSE i \in bad : \A j \in bad : i <= j])

C4_Witness ==
    /\ Parsed
    /\ CountBars(line) = 10
    /\ LastSeven(split(line)) =
          <<<<"1">>, <<"-","5">>, <<"X">>, <<"1">>, <<"X">>, <<"1">>, <<"-","5">>>>
    /\ IsErr(result, "IllegalGid")

\* C5: every record try_from returns has atime, mtime, ctime and crtime at
\* least -1: a timestamp column that is a valid integer below -1 is rejected
\* with that column's error (when the columns before it are valid), and one
\* that is -1 or not negative is not.
C5_TimestampFloor ==
    (Parsed /\ CountBars(line) >= 10) =>
        LET nums == LastSeven(split(line))
        IN /\ result.tag = "Ok" =>
                 \A f \in TimeFields : GeMinusOne(result.rec[f])
           /\ \A i \in 4..7 :
                 (\A j \in 1..(i - 1) : FieldValid(j, nums[j])) =>
                     /\ BelowFloor(nums[i]) => IsErr(result, FieldError[i])
                     /\ DenotesTime(nums[i]) => ~IsErr(result, FieldError[i])

C5_Witness ==
    Parsed /\ line = DocLowCRTime /\ IsErr(result, "IllegalCRTime")

\* C9: on a line of k >= 11 segments whose last seven are valid numeric
\* columns, try_from returns the record with md5 the first segment, name the
\* segments 1 .. k-10 joined by '|', inode and mode the next two segments as
\* they are, and the seven numbers the values of the last seven segments.
C9_Positional ==
    (Parsed /\ CountBars(line) >= 10) =>
        LET parts == split(line)
            k == Len(parts)
        IN (\A i \in 1..7 : FieldValid(i, parts[k - 7 + i])) =>
              /\ result.tag = "Ok"
              /\ result.rec.md5 = parts[1]
              /\ result.rec.name = join(SubSeq(parts, 2, k - 9))
              /\ result.rec.inode = parts[k - 8]
              /\ result.rec.mode_as_string = parts[k - 7]
              /\ result.rec.uid = ValueOf(parts[k - 6])
              /\ result.rec.gid = ValueOf(parts[k - 5])
              /\ result.rec.size = ValueOf(parts[k - 4])
              /\ result.rec.atime = ValueOf(parts[k - 3])
              /\ result.rec.mtime = ValueOf(parts[k - 2])
              /\ result.rec.ctime = ValueOf(parts[k - 1])
              /\ result.rec.crtime = ValueOf(parts[k])

C9_Witness ==
    /\ Parsed
    /\ line = DocNameLine
    /\ result.tag = "Ok"
    /\ result.rec.name = <<"l","s"," ","-","l"," ","|","w","c">>
    /\ result.rec.inode = <<"1">>
    /\ result.rec.crtime = Numeral(FALSE, <<"9">>)

\* C10: try_from ends on every line with one outcome, a record with all
\* eleven fields or one of the eight errors, and every index it reads lies
\* within the segments of the line.
C10_Total ==
    Parsed =>
        /\ \/ /\ result.tag = "Ok"
              /\ DOMAIN result.rec = Fields
              /\ \A f \in Fields \ TextFields :
                    IsDigits(result.rec[f].mag) /\ result.rec[f].neg \in BOOLEAN
           \/ /\ result.tag = "Err"
              /\ DOMAIN result = {"tag", "err"}
              /\ result.err \in Bodyfile3ParserError
        /\ LET n == Len(split(line))
           IN n >= 11 =>
                 \A k \in 2..10 : column(k, n - 10) \in 0..(n - 1)

C10_Witness ==
    /\ Parsed
    /\ Len(split(line)) = 11 + MaxNamePipes
    /\ result.tag = "Ok"

(***************************************************************************)
(* Properties of fmt after try_from.                                       *)
(***************************************************************************)
\* C7 as stated: for every accepted line with exactly 10 '|', formatting the
\* parsed record gives the line back character for character.
C7_Original ==
    (pc = "shown" /\ CountBars(line) = 10) => text = line

\* C7: for every accepted line with exactly 10 '|' whose seven numeric
\* segments are written as Display writes them (no leading '+', no leading
\* zeros, no "-0"), formatting the parsed record gives the line back.
C7_CanonicalInverse ==
    (pc = "shown" /\ CountBars(line) = 10) =>
        ((\A i \in 1..7 : Canonical(LastSeven(split(line))[i])) => text = line)

C7_Witness ==
    pc = "shown" /\ line = DocATime /\ text = DocATime

(***************************************************************************)
(* Building a record with the setters, formatting it and parsing the text  *)
(* back.  The setters take any text and any integer of their type.         *)
(***************************************************************************)
Md5Args == {<<"a","|","b">>}

NameArgs == {<<"n">>, <<"l","s"," ","-","l"," ","|","w","c">>, <<"a","|","|","b">>}

InodeArgs == {<<"1">>, <<"8","|","1">>}

ModeArgs == {<<"2">>, <<"r","|","w">>}

UidArgs == {Numeral(FALSE, <<"3">>), Numeral(FALSE, U64Max)}

GidArgs == {Numeral(FALSE, <<"4">>)}

SizeArgs == {Numeral(FALSE, <<"5">>)}

ATimeArgs == {Numeral(FALSE, <<"6">>), Numeral(TRUE, <<"5">>)}

MTimeArgs == {Numeral(FALSE, <<"7">>)}

CTimeArgs == {Numeral(FALSE, <<"8">>)}

CRTimeArgs == {Numeral(FALSE, <<"9">>), Numeral(TRUE, I64MinMag)}

InitBuild ==
    /\ pc = "build"
    /\ line = <<>>
    /\ result = NoResult
    /\ r = new
    /\ text = <<>>
    /\ applied = {}

Build(next) ==
    /\ pc = "build"
    /\ r' = next
    /\ UNCHANGED <<pc, line, result, text, applied>>

Build_with_md5 == \E a \in Md5Args : Build(with_md5(r, a))

Build_with_name == \E a \in NameArgs : Build(with_name(r, a))

Build_with_inode == \E a \in InodeArgs : Build(with_inode(r, a))

Build_with_mode == \E a \in ModeArgs : Build(with_mode(r, a))

Build_with_uid == \E a \in UidArgs : Build(with_uid(r, a))

Build_with_gid == \E a \in GidArgs : Build(with_gid(r, a))

Build_with_size == \E a \in SizeArgs : Build(with_size(r, a))

Build_with_atime == \E a \in ATimeArgs : Build(with_atime(r, a))

Build_with_mtime == \E a \in MTimeArgs : Build(with_mtime(r, a))

Build_with_ctime == \E a \in CTimeArgs : Build(with_ctime(r, a))

Build_with_crtime == \E a \in CRTimeArgs : Build(with_crtime(r, a))

\* let text = r.to_string()
to_string ==
    /\ pc = "build"
    /\ text' = fmt(r)
    /\ pc' = "formatted"
    /\ UNCHANGED <<line, result, r, applied>>

\* Bodyfile3Line::try_from(&text)
ParseText ==
    /\ pc = "formatted"
    /\ result' = try_from(text)
    /\ pc' = "reparsed"
    /\ UNCHANGED <<line, r, text, applied>>

NextBuild ==
    \/ Build_with_md5 \/ Build_with_name \/ Build_with_inode
    \/ Build_with_mode \/ Build_with_uid \/ Build_with_gid
    \/ Build_with_size \/ Build_with_atime \/ Build_with_mtime
    \/ Build_with_ctime \/ Build_with_crtime
    \/ to_string \/ ParseText

SpecBuild == InitBuild /\ [][NextBuild]_vars

(***************************************************************************)
(* Properties of fmt, and of try_from after fmt.                           *)
(***************************************************************************)
Formatted == pc \in {"formatted", "reparsed"}

Decimal(v) == IF v.neg THEN <<"-">> \o v.mag ELSE v.mag

\* C6: for every record, fmt returns md5, name, inode, mode, uid, gid, size,
\* atime, mtime, ctime, crtime in that order joined by single '|', the text
\* fields as they are and the numbers in decimal, so the output holds 10 '|'
\* plus those inside the four text fields.
C6_Format ==
    Formatted =>
        /\ text = join(<<r.md5, r.name, r.inode, r.mode_as_string,
                         Decimal(r.uid), Decimal(r.gid), Decimal(r.size),
                         Decimal(r.atime), Decimal(r.mtime), Decimal(r.ctime),
                         Decimal(r.crtime)>>)
        /\ CountBars(text) =
              10 + CountBars(r.md5) + CountBars(r.name) + CountBars(r.inode)
                 + CountBars(r.mode_as_string)

C6_Witness ==
    /\ pc = "formatted"
    /\ r.md5 = <<"a","|","b">>
    /\ r.name = <<"a","|","|","b">>
    /\ r.atime = Numeral(TRUE, <<"5">>)
    /\ CountBars(text) = 13

\* C1 as stated: for any record whose name holds no '|', whatever its other
\* text fields and its integers, parsing the formatted line succeeds and
\* returns a record equal to it in all eleven fields.
C1_Original ==
    (pc = "reparsed" /\ CountBars(r.name) = 0) =>
        (result.tag = "Ok" /\ result.rec = r)

\* C1: for any record whose md5, name, inode and mode hold no '|' and whose
\* four timestamps are at least -1, parsing the formatted line succeeds and
\* returns a record equal to it in all eleven fields.
C1_RoundTrip ==
    (/\ pc = "reparsed"
     /\ \A f \in TextFields : CountBars(r[f]) = 0
     /\ \A f \in TimeFields : GeMinusOne(r[f])) =>
        (result.tag = "Ok" /\ result.rec = r)

C1_Witness ==
    /\ pc = "reparsed"
    /\ r.name = <<"n">>
    /\ r.inode = <<"1">>
    /\ r.mode_as_string = <<"2">>
    /\ r.uid = Numeral(FALSE, U64Max)
    /\ r.atime = Numeral(FALSE, <<"6">>)
    /\ r.mtime = MinusOne
    /\ result.tag = "Ok"
    /\ result.rec = r

\* C2 as stated: for any record whose name holds one or more '|', parsing
\* the formatted line succeeds and returns the name as it was.
C2_Original ==
    (pc = "reparsed" /\ CountBars(r.name) >= 1) =>
        (result.tag = "Ok" /\ result.rec.name = r.name)

\* C2: for any record whose name holds one or more '|', whose md5, inode and
\* mode hold none and whose four timestamps are at least -1, parsing the
\* formatted line succeeds and returns the name as it was.
C2_NameRecovered ==
    (/\ pc = "reparsed"
     /\ CountBars(r.name) >= 1
     /\ \A f \in TextFields \ {"name"} : CountBars(r[f]) = 0
     /\ \A f \in TimeFields : GeMinusOne(r[f])) =>
        (result.tag = "Ok" /\ result.rec.name = r.name)

\* the record of the doctest of try_from
C2_Witness ==
    /\ pc = "reparsed"
    /\ r = [md5 |-> <<"0">>, name |-> <<"l","s"," ","-","l"," ","|","w","c">>, inode |-> <<"1">>,
            mode_as_string |-> <<"2">>,
            uid |-> Numeral(FALSE, <<"3">>), gid |-> Numeral(FALSE, <<"4">>),
            size |-> Numeral(FALSE, <<"5">>), atime |-> Numeral(FALSE, <<"6">>),
            mtime |-> Numeral(FALSE, <<"7">>), ctime |-> Numeral(FALSE, <<"8">>),
            crtime |-> Numeral(FALSE, <<"9">>)]
    /\ text = DocNameLine
    /\ result.tag = "Ok"
    /\ result.rec.name = <<"l","s"," ","-","l"," ","|","w","c">>

(***************************************************************************)
(* The builder chain of the doctest of fmt: each setter once, in any       *)
(* order, with fixed arguments.                                            *)
(***************************************************************************)
ChainArg ==
    [md5 |-> <<"4","b","a","d","4","2","0","d","a","6","6","5","7","1","d","a","c","7","f","1","a","c","e","9","9","5","c","c","5","5","c","6">>,
     name |-> <<"s","a","m","p","l","e",".","t","x","t">>,
     inode |-> <<"8","7","9","1","5","-","1","2","8","-","1">>,
     mode_as_string |-> <<"r","/","r","r","w","x","r","w","x","r","w","x">>,
     uid |-> Numeral(FALSE, <<"1","0","0","3">>),
     gid |-> Numeral(FALSE, <<"5","0","0">>),
     size |-> Numeral(FALSE, <<"1","2","6","3","7","8">>),
     atime |-> Numeral(FALSE, <<"1","2","3","4","1">>),
     mtime |-> Numeral(FALSE, <<"1","2","3","4","2">>),
     ctime |-> Numeral(FALSE, <<"1","2","3","4","3">>),
     crtime |-> Numeral(FALSE, <<"1","2","3","4","4">>)]

InitChain ==
    /\ pc = "chain"
    /\ line = <<>>
    /\ result = NoResult
    /\ r = new
    /\ text = <<>>
    /\ applied = {}

Chain(f, next) ==
    /\ pc = "chain"
    /\ f \notin applied
    /\ r' = next
    /\ applied' = applied \cup {f}
    /\ UNCHANGED <<pc, line, result, text>>

Chain_with_md5 == Chain("md5", with_md5(r, ChainArg.md5))

Chain_with_name == Chain("name", with_name(r, ChainArg.name))

Chain_with_inode == Chain("inode", with_inode(r, ChainArg.inode))

Chain_with_mode == Chain("mode_as_string", with_mode(r, ChainArg.mode_as_string))

Chain_with_uid == Chain("uid", with_uid(r, ChainArg.uid))

Chain_with_gid == Chain("gid", with_gid(r, ChainArg.gid))

Chain_with_size == Chain("size", with_size(r, ChainArg.size))

Chain_with_atime == Chain("atime", with_atime(r, ChainArg.atime))

Chain_with_mtime == Chain("mtime", with_mtime(r, ChainArg.mtime))

Chain_with_ctime == Chain("ctime", with_ctime(r, ChainArg.ctime))

Chain_with_crtime == Chain("crtime", with_crtime(r, ChainArg.crtime))

NextChain ==
    \/ Chain_with_md5 \/ Chain_with_name \/ Chain_with_inode
    \/ Chain_with_mode \/ Chain_with_uid \/ Chain_with_gid
    \/ Chain_with_size \/ Chain_with_atime \/ Chain_with_mtime
    \/ Chain_with_ctime \/ Chain_with_crtime

SpecChain == InitChain /\ [][NextChain]_vars

\* C8: from the default record, one setter per field with fixed arguments in
\* any order gives the same record: at every point of every order each field
\* whose setter ran holds that setter's argument and every other field its
\* default, so each setter changes its own field and no other.
C8_OrderIndependent ==
    pc = "chain" =>
        \A f \in Fields : r[f] = IF f \in applied THEN ChainArg[f] ELSE new[f]

C8_Witness ==
    pc = "chain" /\ applied = Fields /\ r = ChainArg

====
